---- MODULE Spec2Model ----
(***************************************************************************)
(* Model of the /news request path of the Inshorts proxy: the Flask        *)
(* handler news() of app.py and the aggregator getNews() of inshorts.py.   *)
(* One behaviour is one GET /news request, from its arrival to the HTTP    *)
(* response.  Python strings that the code transforms (the category, the   *)
(* limit query parameter, the str() of integers) are sequences of          *)
(* one-character strings, so that lower(), int() and str() are computed.   *)
(***************************************************************************)
EXTENDS Integers, Sequences, FiniteSets, TLC

VARIABLES
    origin,              \* "http": GET /news; "call": getNews() called directly
    args,                \* request.args: the query parameters present
    category_arg,        \* the category argument getNews() is called with
    DEFAULT_NEWS_LIMIT,  \* app.py:18, read from the environment at start-up
    MAX_NEWS_LIMIT,      \* app.py:19, read from the environment at start-up
    pc,                  \* position of the request in news() / getNews()
    limit,               \* news(): the effective limit; getNews(): its argument
    category,            \* getNews(): the lower-cased category
    newsDictionary,      \* getNews(): the result being built
    collected_news,      \* getNews(): raw records accumulated by the batch loop
    offset,              \* getNews(): news_offset of the next batch request
    trace,               \* every outbound HTTP exchange, in the order issued
    uuidCount,           \* number of ids handed out by uuid.uuid4()
    caught,              \* <<e>> once getNews()'s except clause has caught e
    raised,              \* <<e>> when an exception left getNews()
    result,              \* <<d>> once getNews() has returned d
    response             \* <<r>> once news() has produced the HTTP response

vars == <<origin, args, category_arg, DEFAULT_NEWS_LIMIT, MAX_NEWS_LIMIT, pc,
          limit, category,
          newsDictionary, collected_news, offset, trace, uuidCount, caught,
          raised, result, response>>

-----------------------------------------------------------------------------
(* Bounds of the model.                                                    *)

\* Largest MAX_NEWS_LIMIT the environment configures.
MaxEnvLimit == 2
\* Largest integer written in the limit query parameter.
MaxLimitArg == 3
\* Largest number of records in one upstream news_list.
MaxListLen == 2

-----------------------------------------------------------------------------
(* Strings.                                                                *)

UpperCase == <<"A","B","C","D","E","F","G","H","I","J","K","L","M","N","O","P","Q","R","S","T","U","V","W","X","Y","Z">>
LowerCase == <<"a","b","c","d","e","f","g","h","i","j","k","l","m","n","o","p","q","r","s","t","u","v","w","x","y","z">>
DigitChars == <<"0","1","2","3","4","5","6","7","8","9">>

\* str.lower() on one character.
lowerChar(c) ==
    IF \E i \in 1..Len(UpperCase) : UpperCase[i] = c
    THEN LowerCase[CHOOSE i \in 1..Len(UpperCase) : UpperCase[i] = c]
    ELSE c

\* A lower() that leaves the string as it is.
lowerIdentity(s) == s

\* str.lower()
lower(s) == [i \in 1..Len(s) |-> lowerChar(s[i])]

\* str(n) of an integer
RECURSIVE strNat(_)
strNat(n) ==
    IF n < 10 THEN <<DigitChars[n + 1]>>
    ELSE strNat(n \div 10) \o <<DigitChars[(n % 10) + 1]>>

str(n) == IF n < 0 THEN <<"-">> \o strNat(-n) ELSE strNat(n)

IsDigit(c) == \E i \in 1..Len(DigitChars) : DigitChars[i] = c
DigitValue(c) == (CHOOSE i \in 1..Len(DigitChars) : DigitChars[i] = c) - 1

RECURSIVE strip(_)
strip(s) ==
    IF s = <<>> THEN s
    ELSE IF Head(s) = " " THEN strip(Tail(s))
    ELSE IF s[Len(s)] = " " THEN strip(SubSeq(s, 1, Len(s) - 1))
    ELSE s

RECURSIVE digitsValue(_)
digitsValue(s) ==
    IF s = <<>> THEN 0
    ELSE 10 * digitsValue(SubSeq(s, 1, Len(s) - 1)) + DigitValue(s[Len(s)])

\* int(s) of a string: surrounding blanks, an optional sign, decimal digits;
\* anything else raises ValueError (ok = FALSE).
int(s) ==
    LET t == strip(s)
        signed == t # <<>> /\ Head(t) \in {"-", "+"}
        d == IF signed THEN Tail(t) ELSE t
    IN  IF d # <<>> /\ \A i \in 1..Len(d) : IsDigit(d[i])
        THEN [ok |-> TRUE,
              value |-> IF signed /\ Head(t) = "-" THEN -digitsValue(d)
                        ELSE digitsValue(d)]
        ELSE [ok |-> FALSE, value |-> 0]

\* A slice that forgets to truncate.
SliceAll(s, n) == s

\* Python's s[:n]
Slice(s, n) ==
    IF n >= 0 THEN SubSeq(s, 1, IF n < Len(s) THEN n ELSE Len(s))
    ELSE SubSeq(s, 1, IF Len(s) + n > 0 THEN Len(s) + n ELSE 0)

-----------------------------------------------------------------------------
(* inshorts.py: module constants.                                          *)

CATEGORIES ==
    <<
       <<"a","l","l">>,
       <<"i","n","d","i","a">>,
       <<"n","a","t","i","o","n","a","l">>,
       <<"w","o","r","l","d">>,
       <<"b","u","s","i","n","e","s","s">>,
       <<"p","o","l","i","t","i","c","s">>,
         <<"t","e","c","h","n","o","l","o","g","y">>,
       <<"s","t","a","r","t","u","p","s">>,
       <<"e","n","t","e","r","t","a","i","n","m","e","n","t">>,
       <<"h","a","t","k","e">>,
       <<"i","n","t","e","r","n","a","t","i","o","n","a","l">>,
       <<"a","u","t","o","m","o","b","i","l","e">>,
       <<"s","c","i","e","n","c","e">>,
       <<"t","r","a","v","e","l">>,
       <<"m","i","s","c","e","l","l","a","n","e","o","u","s">>,
       <<"f","a","s","h","i","o","n">>,
       <<"e","d","u","c","a","t","i","o","n">>,
       <<"h","e","a","l","t","h"," ","&"," ","f","i","t","n","e","s","s">>
    >>

headers ==
    ("authority" :> "inshorts.com") @@
    ("accept" :> "*/*") @@
    ("accept-language" :> "en-GB,en;q=0.5") @@
    ("content-type" :> "application/json") @@
    ("referer" :> "https://inshorts.com/en/read") @@
    ("sec-ch-ua" :> "\"Not/A)Brand\";v=\"99\", \"Brave\";v=\"115\", \"Chromium\";v=\"115\"") @@
    ("sec-ch-ua-mobile" :> "?0") @@
    ("sec-ch-ua-platform" :> "\"macOS\"") @@
    ("sec-fetch-dest" :> "empty") @@
    ("sec-fetch-mode" :> "cors") @@
    ("user-agent" :> "Mozilla/5.0")

\* requests.get() called without a headers argument
NoHeaders == [h \in {} |-> ""]

batch_size == 10

-----------------------------------------------------------------------------
(* Raw upstream records and their normalization.                           *)

RequiredFields ==
    {"created_at", "title", "image_url", "shortened_url", "content",
     "author_name", "source_url"}

NewsObj(ts, tag) ==
    [created_at |-> ts, title |-> tag, image_url |-> "image",
     shortened_url |-> "short", content |-> "content",
     author_name |-> "author", source_url |-> "source"]

\* Two well-formed records and one whose news_obj lacks fields, for which
\* news['image_url'] raises KeyError.
RawEntries ==
    {[news_obj |-> NewsObj(0, "A")],
     [news_obj |-> NewsObj(66600000, "B")],
     [news_obj |-> [created_at |-> 0, title |-> "C"]]}

\* The IST wall clock of an epoch-milliseconds timestamp: the day number
\* and the minute of the day that strftime() then formats.
IstSeconds(created_at) == (created_at \div 1000) + 19800

create_news_object(news, id) ==
    [id |-> id,
     title |-> news.title,
     imageUrl |-> news.image_url,
     url |-> news.shortened_url,
     content |-> news.content,
     author |-> news.author_name,
     date |-> IstSeconds(news.created_at) \div 86400,
     time |-> (IstSeconds(news.created_at) % 86400) \div 60,
     readMoreUrl |-> news.source_url]

\* Whether entry['news_obj'] and create_news_object() complete without raising.
Normalizes(entry) ==
    /\ "news_obj" \in DOMAIN entry
    /\ RequiredFields \subseteq DOMAIN entry.news_obj

\* The for loop over the truncated records: a record whose normalization
\* raises is logged and skipped (continue); st is [data, ids].
RECURSIVE ProcessEntries(_, _)
ProcessEntries(entries, st) ==
    IF entries = <<>> THEN st
    ELSE IF Normalizes(Head(entries))
    THEN ProcessEntries(Tail(entries),
            [data |-> Append(st.data,
                             create_news_object(Head(entries).news_obj, st.ids + 1)),
             ids |-> st.ids + 1])
    ELSE ProcessEntries(Tail(entries), st)

-----------------------------------------------------------------------------
(* The upstream service: what requests.get() can produce.                  *)

RECURSIVE SeqsUpTo(_, _)
SeqsUpTo(S, n) ==
    IF n = 0 THEN {<<>>}
    ELSE LET shorter == SeqsUpTo(S, n - 1)
         IN  shorter \cup {Append(q, x) : q \in shorter, x \in S}

\* Response bodies: not JSON at all, a JSON array, an object whose "data" is
\* null, an object without "data", an object with data.news_list.
BodyText == [kind |-> "text", news_list |-> <<>>]
Bodies ==
    {BodyText,
     [kind |-> "array", news_list |-> <<>>],
     [kind |-> "data_null", news_list |-> <<>>],
     [kind |-> "data_missing", news_list |-> <<>>]}
    \cup {[kind |-> "object", news_list |-> l] : l \in SeqsUpTo(RawEntries, MaxListLen)}

StatusCodes == {200, 204, 503}

TransportError == [exception |-> "ConnectionError", status_code |-> 0, body |-> BodyText]

Reply(status, body) == [exception |-> "", status_code |-> status, body |-> body]

\* response.json().get('data', {}).get('news_list', []): the list, or the
\* exception the expression raises.
NewsListOf(body) ==
    CASE body.kind = "text" -> [exc |-> "JSONDecodeError", list |-> <<>>]
      [] body.kind = "array" -> [exc |-> "AttributeError", list |-> <<>>]
      [] body.kind = "data_null" -> [exc |-> "AttributeError", list |-> <<>>]
      [] body.kind = "data_missing" -> [exc |-> "", list |-> <<>>]
      [] OTHER -> [exc |-> "", list |-> body.news_list]

-----------------------------------------------------------------------------
(* The requests a client can send.                                         *)

CategoryArgs ==
    {<<>>,
     <<"a","l","l">>,
     <<"A","l","l">>,
     <<"T","e","c","h","n","o","l","o","g","y">>,
     <<"x","y","z">>}

LimitArgs ==
    {str(n) : n \in 0..MaxLimitArg}
    \cup {<<"-","1">>, <<" ","2">>, <<"a","b">>, <<>>}

NoParams == [p \in {} |-> <<>>]

Requests ==
    {NoParams}
    \cup {[category |-> c] : c \in CategoryArgs}
    \cup {[limit |-> l] : l \in LimitArgs}
    \cup {[category |-> c, limit |-> l] : c \in CategoryArgs, l \in LimitArgs}

\* request.args.get(key)
HasArg(key) == key \in DOMAIN args

\* A default below 1, one inside [1, max] and one above max.
DefaultChoices(max) == {0, max, max + 1}

\* Either a GET /news request arrives at news(), or getNews() is called as
\* a function with a category string and a limit.
Init ==
    /\ MAX_NEWS_LIMIT = MaxEnvLimit
    /\ \/ /\ origin = "http"
          /\ args \in Requests
          /\ DEFAULT_NEWS_LIMIT \in DefaultChoices(MaxEnvLimit)
          /\ pc = "news"
          /\ category_arg = <<>>
          /\ limit = 0
       \/ /\ origin = "call"
          /\ args = NoParams
          /\ DEFAULT_NEWS_LIMIT = MaxEnvLimit
          /\ pc = "getNews"
          /\ category_arg \in CategoryArgs
          /\ limit \in 0..MaxEnvLimit
    /\ category = <<>>
    /\ newsDictionary = [success |-> TRUE]
    /\ collected_news = <<>>
    /\ offset = 0
    /\ trace = <<>>
    /\ uuidCount = 0
    /\ caught = <<>>
    /\ raised = <<>>
    /\ result = <<>>
    /\ response = <<>>

-----------------------------------------------------------------------------
(* app.py: the /news handler up to its call of getNews().                  *)

\* A clamp without the lower bound.
ClampLimitNoFloor(n, max) == IF n > max THEN max ELSE n

\* if limit < 1: limit = 1 / elif limit > MAX_NEWS_LIMIT: limit = MAX_NEWS_LIMIT
ClampLimit(n, max) ==
    IF n < 1 THEN 1
    ELSE IF n > max THEN max
    ELSE n

\* try: limit = int(request.args.get("limit", DEFAULT_NEWS_LIMIT)) ... except
\* ValueError: limit = DEFAULT_NEWS_LIMIT.  An absent parameter yields the
\* integer default, which int() returns unchanged and the clamp then sees.
EffectiveLimit ==
    IF HasArg("limit")
    THEN LET parsed == int(args.limit)
         IN  IF parsed.ok THEN ClampLimit(parsed.value, MAX_NEWS_LIMIT)
             ELSE DEFAULT_NEWS_LIMIT
    ELSE ClampLimit(DEFAULT_NEWS_LIMIT, MAX_NEWS_LIMIT)

\* "if not category": the parameter is absent (None) or the empty string.
NoCategory == ~HasArg("category") \/ args.category = <<>>

\* handle_errors turning a raised NewsAPIError into a JSON error response.
ErrorResponse(message, status_code) ==
    [status_code |-> status_code,
     json |-> [error |-> message, status |-> "error"]]

News ==
    /\ pc = "news"
    /\ limit' = EffectiveLimit
    /\ IF NoCategory
       THEN /\ response' = <<ErrorResponse("Category parameter is required or is invalid", 404)>>
            /\ category_arg' = category_arg
            /\ pc' = "done"
       ELSE /\ response' = response
            /\ category_arg' = args.category
            /\ pc' = "getNews"
    /\ UNCHANGED <<origin, args, DEFAULT_NEWS_LIMIT, MAX_NEWS_LIMIT,
                   category, newsDictionary, collected_news, offset, trace,
                   uuidCount, caught, raised, result>>

-----------------------------------------------------------------------------
(* inshorts.py: getNews().                                                 *)

All == <<"a","l","l">>

InList(x, list) == \E i \in 1..Len(list) : list[i] = x

\* the negation of: category != 'all' and category not in CATEGORIES
IsValidCategory(c) == ~(c # All /\ ~InList(c, CATEGORIES))

\* Lines 77-88: lower-case, validate, build the empty result.
GetNews ==
    /\ pc = "getNews"
    /\ category' = lower(category_arg)
    /\ IF ~IsValidCategory(category')
       THEN /\ result' = <<[success |-> FALSE, error |-> "Invalid category"]>>
            /\ newsDictionary' = newsDictionary
            /\ pc' = "return"
       ELSE /\ result' = result
            /\ newsDictionary' =
                   [success |-> TRUE, category |-> category', data |-> <<>>]
            /\ pc' = IF category' = All THEN "bulk" ELSE "loop"
    /\ UNCHANGED <<origin, args, DEFAULT_NEWS_LIMIT, MAX_NEWS_LIMIT,
                   category_arg, limit, collected_news, offset, trace,
                   uuidCount, caught, raised, response>>

\* An except clause that catches transport errors only.
CatchesTransportOnly(e) == e = "ConnectionError"

\* "except Exception as e" of line 170: which exceptions the clause catches.
Catches(e) == TRUE

\* An exception e raised inside the try block of lines 90-168: caught at line
\* 170, it marks the result failed and returns it; otherwise it leaves getNews.
Throw(e) ==
    IF Catches(e)
    THEN /\ newsDictionary' = [success |-> FALSE, error |-> e] @@ newsDictionary
         /\ caught' = <<e>>
         /\ raised' = raised
         /\ result' = <<newsDictionary'>>
         /\ pc' = "return"
    ELSE /\ newsDictionary' = newsDictionary
         /\ caught' = caught
         /\ raised' = <<e>>
         /\ result' = result
         /\ pc' = "return"

BulkRequest ==
    [endpoint |-> "api/en/news",
     path_category |-> <<>>,
     headers |-> NoHeaders,
     params |-> [category |-> "all_news", max_limit |-> str(limit),
                 include_card_data |-> "true"]]

ProbeRequest ==
    [endpoint |-> "api/en/trending_topics",
     path_category |-> <<>>,
     headers |-> headers,
     params |-> NoParams]

BatchRequest ==
    [endpoint |-> "api/en/search/trending_topics",
     path_category |-> category,
     headers |-> headers,
     params |-> [category |-> "top_stories", max_limit |-> str(batch_size),
                 include_card_data |-> "true", news_offset |-> str(offset),
                 size |-> str(batch_size)]]

\* Every reply whose body is read, under every status code.
FullResponses ==
    {TransportError} \cup {Reply(s, b) : s \in StatusCodes, b \in Bodies}

\* The probe's body is never read.
ProbeResponses ==
    {TransportError} \cup {Reply(s, BodyText) : s \in StatusCodes}

\* A batch reply's body is read only under status 200.
BatchResponses ==
    {TransportError}
    \cup {Reply(s, BodyText) : s \in StatusCodes \ {200}}
    \cup {Reply(200, b) : b \in Bodies}

\* Lines 91-115 and 168: the single bulk request of category "all".
Bulk ==
    /\ pc = "bulk"
    /\ \E r \in FullResponses :
         /\ trace' = Append(trace, [request |-> BulkRequest, response |-> r])
         /\ IF r.exception # ""
            THEN Throw(r.exception) /\ uuidCount' = uuidCount
            ELSE LET news_data == NewsListOf(r.body)
                 IN  IF news_data.exc # ""
                     THEN Throw(news_data.exc) /\ uuidCount' = uuidCount
                     ELSE IF news_data.list = <<>>
                     THEN /\ newsDictionary' =
                                [success |-> FALSE, error |-> "No news found"]
                                    @@ newsDictionary
                          /\ result' = <<newsDictionary'>>
                          /\ pc' = "return"
                          /\ UNCHANGED <<uuidCount, caught, raised>>
                     ELSE LET st == ProcessEntries(Slice(news_data.list, limit),
                                        [data |-> <<>>, ids |-> uuidCount])
                          IN  /\ newsDictionary' =
                                     [newsDictionary EXCEPT !.data = st.data]
                              /\ uuidCount' = st.ids
                              /\ result' = <<newsDictionary'>>
                              /\ pc' = "return"
                              /\ UNCHANGED <<caught, raised>>
    /\ UNCHANGED <<origin, args, DEFAULT_NEWS_LIMIT, MAX_NEWS_LIMIT,
                   category_arg, limit, category, collected_news, offset,
                   response>>

\* Line 122: while len(collected_news) < limit
Loop ==
    /\ pc = "loop"
    /\ pc' = IF Len(collected_news) < limit THEN "probe" ELSE "process"
    /\ UNCHANGED <<origin, args, DEFAULT_NEWS_LIMIT, MAX_NEWS_LIMIT,
                   category_arg, limit, category, newsDictionary,
                   collected_news, offset, trace, uuidCount, caught, raised,
                   result, response>>

\* Lines 124-130: the trending-topics probe; only its status code is used.
Probe ==
    /\ pc = "probe"
    /\ \E r \in ProbeResponses :
         /\ trace' = Append(trace, [request |-> ProbeRequest, response |-> r])
         /\ IF r.exception # ""
            THEN Throw(r.exception)
            ELSE /\ pc' = IF r.status_code # 200 THEN "process" ELSE "batch"
                 /\ UNCHANGED <<newsDictionary, caught, raised, result>>
    /\ UNCHANGED <<origin, args, DEFAULT_NEWS_LIMIT, MAX_NEWS_LIMIT,
                   category_arg, limit, category, collected_news, offset,
                   uuidCount, response>>

\* An offset that is never advanced.
NextOffsetStuck(o) == o

\* offset += batch_size
NextOffset(o) == o + batch_size

\* An extend that drops the batch.
ExtendNothing(collected, news_data) == collected

\* collected_news.extend(news_data)
Extend(collected, news_data) == collected \o news_data

\* Lines 132-156: one batch request and what the loop does with its reply.
\* time.sleep(0.1) changes no state.
Batch ==
    /\ pc = "batch"
    /\ \E r \in BatchResponses :
         /\ trace' = Append(trace, [request |-> BatchRequest, response |-> r])
         /\ IF r.exception # ""
            THEN Throw(r.exception) /\ UNCHANGED <<collected_news, offset>>
            ELSE IF r.status_code # 200
            THEN /\ pc' = "process"
                 /\ UNCHANGED <<newsDictionary, caught, raised, result,
                                collected_news, offset>>
            ELSE LET news_data == NewsListOf(r.body)
                 IN  IF news_data.exc # ""
                     THEN Throw(news_data.exc) /\ UNCHANGED <<collected_news, offset>>
                     ELSE IF news_data.list = <<>>
                     THEN /\ pc' = "process"
                          /\ UNCHANGED <<newsDictionary, caught, raised, result,
                                         collected_news, offset>>
                     ELSE /\ collected_news' = Extend(collected_news, news_data.list)
                          /\ IF Len(collected_news') >= limit
                             THEN pc' = "process" /\ offset' = offset
                             ELSE pc' = "loop" /\ offset' = NextOffset(offset)
                          /\ UNCHANGED <<newsDictionary, caught, raised, result>>
    /\ UNCHANGED <<origin, args, DEFAULT_NEWS_LIMIT, MAX_NEWS_LIMIT,
                   category_arg, limit, category, uuidCount, response>>

\* A strict variant: fewer than limit records is a failure.
ProcessStrict ==
    /\ pc = "process"
    /\ LET st == ProcessEntries(Slice(collected_news, limit),
                                [data |-> <<>>, ids |-> uuidCount])
       IN  /\ newsDictionary' =
                  IF Len(collected_news) < limit
                  THEN [success |-> FALSE, error |-> "Limit not met"]
                           @@ [newsDictionary EXCEPT !.data = st.data]
                  ELSE [newsDictionary EXCEPT !.data = st.data]
           /\ uuidCount' = st.ids
    /\ result' = <<newsDictionary'>>
    /\ pc' = "return"
    /\ UNCHANGED <<origin, args, DEFAULT_NEWS_LIMIT, MAX_NEWS_LIMIT,
                   category_arg, limit, category, collected_news, offset,
                   trace, caught, raised, response>>

\* Lines 159-168: truncate to limit, normalize, return the result.
Process ==
    /\ pc = "process"
    /\ LET st == ProcessEntries(Slice(collected_news, limit),
                                [data |-> <<>>, ids |-> uuidCount])
       IN  /\ newsDictionary' = [newsDictionary EXCEPT !.data = st.data]
           /\ uuidCount' = st.ids
    /\ result' = <<newsDictionary'>>
    /\ pc' = "return"
    /\ UNCHANGED <<origin, args, DEFAULT_NEWS_LIMIT, MAX_NEWS_LIMIT,
                   category_arg, limit, category, collected_news, offset,
                   trace, caught, raised, response>>

-----------------------------------------------------------------------------
(* app.py lines 148-154: what news() does with the outcome of getNews().   *)

\* A direct call of getNews() ends with its return.
Return ==
    /\ pc = "return"
    /\ response' =
         IF origin = "call" THEN response
         ELSE IF raised # <<>>
         THEN <<ErrorResponse("Failed to fetch news for category", 500)>>
         ELSE <<[status_code |-> 200, json |-> result[1]]>>
    /\ pc' = "done"
    /\ UNCHANGED <<origin, args, DEFAULT_NEWS_LIMIT, MAX_NEWS_LIMIT,
                   category_arg, limit, category, newsDictionary,
                   collected_news, offset, trace, uuidCount, caught, raised,
                   result>>

Next ==
    \/ News
    \/ GetNews
    \/ Bulk
    \/ Loop
    \/ Probe
    \/ Batch
    \/ Process
    \/ Return

Spec == Init /\ [][Next]_vars

\* The request is served by one thread that keeps running: every step that
\* can be taken is eventually taken.
FairSpec == Spec /\ WF_vars(Next)

-----------------------------------------------------------------------------
(* Properties.                                                             *)

\* getNews() has been entered and is past its validation.
Validated ==
    pc \in {"bulk", "loop", "probe", "batch", "process", "return"}
    \/ (pc = "done" /\ (origin = "call" \/ ~NoCategory))

Returned == result # <<>>

\* a and b are the same letter up to case, stated on the alphabet tables.
SameLetter(a, b) ==
    a = b \/ \E i \in 1..Len(UpperCase) : a = UpperCase[i] /\ b = LowerCase[i]

\* s spells, up to case, one of the fixed categories ("all" is one of them).
NamesCategory(s) ==
    \E k \in 1..Len(CATEGORIES) :
        /\ Len(s) = Len(CATEGORIES[k])
        /\ \A i \in 1..Len(s) : SameLetter(s[i], CATEGORIES[k][i])

RejectedAsInvalid ==
    /\ Returned
    /\ "error" \in DOMAIN result[1]
    /\ result[1].error = "Invalid category"

LastExchange == trace[Len(trace)]

IsProbe(x) == x.request.endpoint = "api/en/trending_topics"
IsBatch(x) == x.request.endpoint = "api/en/search/trending_topics"
IsBulk(x) == x.request.endpoint = "api/en/news"

\* The body of exchange x is read by the code: the bulk reply always, a batch
\* reply under status 200, a probe reply never.
BodyRead(x) ==
    /\ x.response.exception = ""
    /\ IsBulk(x) \/ (IsBatch(x) /\ x.response.status_code = 200)

\* Exchange x makes the fetch raise: the transport fails, the body is not
\* JSON, or the JSON has not the shape of an object holding an object.
Faulty(x) ==
    \/ x.response.exception # ""
    \/ BodyRead(x) /\ x.response.body.kind \in {"text", "array", "data_null"}

ExpectedError(x) ==
    IF x.response.exception # "" THEN x.response.exception
    ELSE IF x.response.body.kind = "text" THEN "JSONDecodeError"
    ELSE "AttributeError"

\* C2: whatever the upstream does, no exception leaves getNews and a result
\* object is returned; when an exchange makes the fetch raise, the result has
\* success=false and error equal to the stringified exception.
C2_AlwaysReturnsResult ==
    /\ raised = <<>>
    /\ (Validated /\ pc \in {"return", "done"}) => Returned
    /\ (trace # <<>> /\ Faulty(LastExchange)) =>
          /\ Returned
          /\ result[1].success = FALSE
          /\ "error" \in DOMAIN result[1]
          /\ result[1].error = ExpectedError(LastExchange)

C2_Witness ==
    /\ pc = "done"
    /\ Len(trace) = 4
    /\ IsBatch(LastExchange)
    /\ LastExchange.response.exception = ""
    /\ LastExchange.response.body.kind = "text"
    /\ LastExchange.response.status_code = 200
    /\ Returned
    /\ result[1].error = "JSONDecodeError"

CategoryPath == Validated /\ category # All /\ InList(category, CATEGORIES)

\* The last exchange is a reply with a status outside 2xx.
StoppedByStatus ==
    /\ trace # <<>>
    /\ LastExchange.response.exception = ""
    /\ LastExchange.response.status_code \notin 200..299

\* The last exchange is a batch that returned zero records.
StoppedByEmptyBatch ==
    /\ trace # <<>>
    /\ IsBatch(LastExchange)
    /\ BodyRead(LastExchange)
    /\ LastExchange.response.body.kind \in {"data_missing", "object"}
    /\ LastExchange.response.body.news_list = <<>>

\* C3: on the category path, when a non-2xx probe or batch stops the loop
\* before any record was collected, getNews returns success=false.
C3_EmptyUpstreamFailureIsFailure ==
    (CategoryPath /\ Returned /\ StoppedByStatus /\ collected_news = <<>>)
        => result[1].success = FALSE

\* The records of raw, each normalized, in order; ids are those of data.
NormalizedAs(data, raw) ==
    LET good == SelectSeq(raw, Normalizes)
    IN  /\ Len(data) = Len(good)
        /\ \A i \in 1..Len(data) :
              data[i] = create_news_object(good[i].news_obj, data[i].id)

\* C4: on the category path, when at least one record was collected and the
\* loop then stops on a non-2xx probe or batch or on an empty batch, getNews
\* returns success=true with no error field and data holds the normalized
\* records collected so far, although fewer than limit.
C4_LenientPartialSuccess ==
    (/\ CategoryPath
     /\ Returned
     /\ collected_news # <<>>
     /\ StoppedByStatus \/ StoppedByEmptyBatch)
        => /\ result[1].success = TRUE
           /\ "error" \notin DOMAIN result[1]
           /\ Len(collected_news) < limit
           /\ NormalizedAs(result[1].data, collected_news)

C4_Witness ==
    /\ pc = "done"
    /\ CategoryPath
    /\ Len(collected_news) = 1
    /\ limit = 2
    /\ StoppedByStatus
    /\ IsProbe(LastExchange)
    /\ Len(result[1].data) = 1
    /\ result[1].success = TRUE

\* The limit parameter is the decimal writing of n, possibly after a blank.
LimitParses(n) ==
    /\ HasArg("limit")
    /\ args.limit \in {str(n), <<" ">> \o str(n)}

LimitUnparseable ==
    /\ HasArg("limit")
    /\ \A n \in -1..MaxLimitArg : ~LimitParses(n)

Clamped(n) ==
    IF n < 1 THEN 1
    ELSE IF n > MAX_NEWS_LIMIT THEN MAX_NEWS_LIMIT
    ELSE n

\* C5 as stated: the effective limit is 1 below 1, the maximum above it, the
\* integer itself in between, and the configured default when the parameter
\* is absent or not an integer.
C5_EffectiveLimitAsStated ==
    (origin = "http" /\ pc # "news") =>
        /\ \A n \in -1..MaxLimitArg : LimitParses(n) => limit = Clamped(n)
        /\ LimitUnparseable => limit = DEFAULT_NEWS_LIMIT
        /\ ~HasArg("limit") => limit = DEFAULT_NEWS_LIMIT
        /\ DEFAULT_NEWS_LIMIT \in 1..MAX_NEWS_LIMIT => limit \in 1..MAX_NEWS_LIMIT

\* C5, amended: as stated, except that an absent parameter yields the
\* configured default clamped into [1, maximum] (the default itself when it
\* lies in that range); only an unparseable parameter yields it unclamped.
C5_EffectiveLimit ==
    (origin = "http" /\ pc # "news") =>
        /\ \A n \in -1..MaxLimitArg : LimitParses(n) => limit = Clamped(n)
        /\ LimitUnparseable => limit = DEFAULT_NEWS_LIMIT
        /\ ~HasArg("limit") => limit = Clamped(DEFAULT_NEWS_LIMIT)
        /\ DEFAULT_NEWS_LIMIT \in 1..MAX_NEWS_LIMIT => limit \in 1..MAX_NEWS_LIMIT

C5_Witness ==
    /\ origin = "http"
    /\ pc = "done"
    /\ ~HasArg("limit")
    /\ DEFAULT_NEWS_LIMIT > MAX_NEWS_LIMIT
    /\ limit = MAX_NEWS_LIMIT
    /\ Returned

\* C6: every outbound request (the bulk request, each probe, each batch
\* request) carries the fixed browser-impersonating header set.
C6_AllRequestsCarryHeaders ==
    \A i \in 1..Len(trace) : trace[i].request.headers = headers

\* C7: a GET /news whose category is missing, empty or outside the fixed set
\* is answered with status 404, never with 200 and a success=false result.
C7_ValidationErrorIs404 ==
    (/\ origin = "http"
     /\ response # <<>>
     /\ NoCategory \/ ~NamesCategory(args.category))
        => response[1].status_code = 404

\* The raw records received, concatenated over the exchanges in order.
RECURSIVE ReceivedIn(_)
ReceivedIn(t) ==
    IF t = <<>> THEN <<>>
    ELSE ReceivedIn(SubSeq(t, 1, Len(t) - 1))
         \o (IF BodyRead(t[Len(t)]) /\ t[Len(t)].response.body.kind = "object"
             THEN t[Len(t)].response.body.news_list
             ELSE <<>>)

Received == ReceivedIn(trace)

FirstOf(raw, n) == SubSeq(raw, 1, IF n < Len(raw) THEN n ELSE Len(raw))

\* C8: when getNews completes without a whole-request exception, data is the
\* normalization, in upstream order, of those among the first limit raw
\* records received whose normalization does not fail: never more than limit,
\* a failing record skipped, later records never filling its place.
C8_DataIsNormalizedPrefix ==
    (Returned /\ "data" \in DOMAIN result[1] /\ ~(trace # <<>> /\ Faulty(LastExchange)))
        => /\ Len(result[1].data) <= limit
           /\ NormalizedAs(result[1].data, FirstOf(Received, limit))

C8_Witness ==
    /\ pc = "done"
    /\ CategoryPath
    /\ Returned
    /\ limit = 2
    /\ Len(Received) = 3
    /\ ~Normalizes(Received[2])
    /\ Normalizes(Received[3])
    /\ Len(result[1].data) = 1
    /\ result[1].success = TRUE

\* C9: on the category path the requests strictly alternate probe, batch,
\* probe, batch, ...; a batch follows only a probe answered 200, nothing
\* follows a failed probe, and the k-th batch request carries
\* news_offset = 10*(k-1) and size = 10.
C9_ProbeBatchAlternation ==
    CategoryPath =>
        \A i \in 1..Len(trace) :
            /\ i % 2 = 1 => IsProbe(trace[i])
            /\ i % 2 = 0 =>
                  /\ IsBatch(trace[i])
                  /\ trace[i].request.path_category = category
                  /\ int(trace[i].request.params.news_offset)
                        = [ok |-> TRUE, value |-> 10 * ((i \div 2) - 1)]
                  /\ int(trace[i].request.params.size) = [ok |-> TRUE, value |-> 10]
                  /\ int(trace[i].request.params.max_limit) = [ok |-> TRUE, value |-> 10]
            /\ (IsProbe(trace[i]) /\ i < Len(trace)) =>
                  /\ trace[i].response.exception = ""
                  /\ trace[i].response.status_code = 200

C9_Witness ==
    /\ pc = "done"
    /\ CategoryPath
    /\ Len(trace) = 4
    /\ Len(trace[2].response.body.news_list) = 1
    /\ int(trace[4].request.params.news_offset).value = 10
    /\ LastExchange.response.status_code = 503

NumBatches == Cardinality({i \in 1..Len(trace) : IsBatch(trace[i])})
NumProbes == Cardinality({i \in 1..Len(trace) : IsProbe(trace[i])})

\* C10: provided every upstream request returns, the category loop always
\* terminates: it runs only while fewer than limit records are held, every
\* continuing iteration adds a record, so at most limit batch requests and at
\* most limit probes are issued, and the request completes.
C10_LoopTerminates ==
    /\ [](CategoryPath =>
            /\ NumBatches <= limit
            /\ NumProbes <= limit
            /\ pc \in {"probe", "batch"} =>
                  /\ Len(collected_news) < limit
                  /\ NumBatches <= Len(collected_news))
    /\ <>(pc = "done")

C10_Witness ==
    /\ pc = "done"
    /\ CategoryPath
    /\ limit = 2
    /\ NumBatches = 2
    /\ NumProbes = 2

====
